---- MODULE Spec2Model ----
(***************************************************************************)
(* A model of flask_with_glasses: the EnhancedApp constructor (config      *)
(* merge, folder scaffolding, jinja and webassets set-up), the error       *)
(* handlers, run_livereload, and gen_slug and format_datetime of the       *)
(* utility library.                                                        *)
(*                                                                         *)
(* Strings.  A configuration KEY is a sequence of one-character strings,   *)
(* so that prefix stripping and lower-casing are computed.  Every other    *)
(* string (a path, a file name, a template) is a sequence of TOKENS: "/"   *)
(* and "." and "*" are tokens of their own, every other token is a run of  *)
(* characters holding none of them, and "%(name)s" is the token of a       *)
(* format placeholder.  'static/scss/styles.scss' is                       *)
(* <<"static","/","scss","/","styles",".","scss">>.                        *)
(***************************************************************************)
EXTENDS Integers, Sequences, FiniteSets, TLC

VARIABLES
    pc,              \* position inside EnhancedApp.__init__ / after it
    config_file,     \* the caller's configuration object: attribute -> value
    app_config,      \* the flask Config (self.app.config)
    config,          \* self.config, the 'EA_' namespace
    fs,              \* the filesystem: [dirs, files], absolute normalised paths
    created,         \* the paths created so far, in creation order
    sc_i,            \* create_folder_structure: index of the template in turn
    env_filters,     \* jinja env.filters added by enhance_jinja
    env_globals,     \* jinja env.globals added by enhance_jinja
    scss_path, js_src_path, bower_path,
    js_filters, css_filters, depends_scss,
    js_asset_names, css_asset_names,
    named_bundles,   \* assets_env: registered name -> bundle
    registered,      \* the register calls made so far, in order
    as_i,            \* enhance_assets: index of the next registration
    handlers,        \* status codes with a handler of add_error_handlers
    response,        \* the answer to the last failed request
    auto_reload,     \* app.jinja_env.auto_reload
    server,          \* the livereload.Server of run_livereload
    lr_i,            \* run_livereload: index of the watch pattern in turn
    lr_args,         \* run_livereload: the positional arguments of the call
    port,            \* run_livereload: the parameter port
    sl_pc, input_string, existing_slugs, base, slug, counter,  \* gen_slug
    fd_pc, d, format, fd_result                                \* format_datetime

vars ==
    <<pc, config_file, app_config, config, fs, created, sc_i,
      env_filters, env_globals, scss_path, js_src_path, bower_path,
      js_filters, css_filters, depends_scss, js_asset_names, css_asset_names,
      named_bundles, registered, as_i, handlers, response,
      auto_reload, server, lr_i, lr_args, port,
      sl_pc, input_string, existing_slugs, base, slug, counter,
      fd_pc, d, format, fd_result>>

live_vars ==
    <<auto_reload, server, lr_i, lr_args, port>>

app_vars ==
    <<pc, config_file, app_config, config, fs, created, sc_i,
      env_filters, env_globals, scss_path, js_src_path, bower_path,
      js_filters, css_filters, depends_scss, js_asset_names, css_asset_names,
      named_bundles, registered, as_i, handlers, response, live_vars>>

slug_vars ==
    <<sl_pc, input_string, existing_slugs, base, slug, counter>>

date_vars ==
    <<fd_pc, d, format, fd_result>>

\* what the constructor and the request handlers leave alone
outside_vars ==
    <<live_vars, slug_vars, date_vars>>

(***************************************************************************)
(* Bounds of the model.                                                    *)
(***************************************************************************)
\* how many attributes the caller's configuration object sets
MaxOverrides ==
    2

\* the longest input text of gen_slug, in characters
MaxLen ==
    3

(***************************************************************************)
(* Sequences and strings.                                                  *)
(***************************************************************************)
SEP ==
    "/"

DOT ==
    "."

Last(s) ==
    s[Len(s)]

MaxOf(S) ==
    CHOOSE x \in S : \A y \in S : y <= x

\* str.rfind: the 0-based index of the last occurrence, -1 when there is none
RFind(s, t) ==
    LET I == {i \in 1..Len(s) : s[i] = t}
    IN  IF I = {} THEN -1 ELSE MaxOf(I) - 1

StartsWith(s, p) ==
    /\ Len(p) <= Len(s)
    /\ SubSeq(s, 1, Len(p)) = p

EndsWith(s, p) ==
    /\ Len(p) <= Len(s)
    /\ SubSeq(s, Len(s) - Len(p) + 1, Len(s)) = p

Range(s) ==
    {s[i] : i \in 1..Len(s)}

NoDuplicates(s) ==
    \A i, j \in 1..Len(s) : s[i] = s[j] => i = j

\* every ordering of the finite set S
Orderings(S) ==
    {s \in [1..Cardinality(S) -> S] : Range(s) = S}

UpperCase ==
    <<"A","B","C","D","E","F","G","H","I","J","K","L","M",
      "N","O","P","Q","R","S","T","U","V","W","X","Y","Z">>

LowerCase ==
    <<"a","b","c","d","e","f","g","h","i","j","k","l","m",
      "n","o","p","q","r","s","t","u","v","w","x","y","z">>

\* str.lower of one character
LowerChar(c) ==
    IF \E i \in 1..Len(UpperCase) : UpperCase[i] = c
    THEN LowerCase[CHOOSE i \in 1..Len(UpperCase) : UpperCase[i] = c]
    ELSE c

lower(s) ==
    [i \in 1..Len(s) |-> LowerChar(s[i])]

\* str.isupper: a cased character, and no lower-case one
isupper(s) ==
    /\ \E i \in 1..Len(s) : s[i] \in Range(UpperCase)
    /\ \A i \in 1..Len(s) : s[i] \notin Range(LowerCase)

(***************************************************************************)
(* Paths: os.path and utils.abs_path.                                      *)
(***************************************************************************)
\* os.getcwd(): the project root
cwd ==
    <<SEP, "proj">>

\* os.pardir
PARDIR ==
    <<DOT, DOT>>

IsAbs(p) ==
    /\ p # <<>>
    /\ p[1] = SEP

\* os.path.join of two parts
join(a, b) ==
    IF IsAbs(b) THEN b
    ELSE IF a = <<>> \/ Last(a) = SEP THEN a \o b
    ELSE a \o <<SEP>> \o b

RECURSIVE JoinAll(_, _)
JoinAll(a, parts) ==
    IF parts = <<>> THEN a ELSE JoinAll(join(a, Head(parts)), Tail(parts))

\* str.split on the separator: the components, empty ones included
RECURSIVE SplitFrom(_, _, _)
SplitFrom(p, cur, acc) ==
    IF p = <<>> THEN Append(acc, cur)
    ELSE IF Head(p) = SEP THEN SplitFrom(Tail(p), <<>>, Append(acc, cur))
    ELSE SplitFrom(Tail(p), Append(cur, Head(p)), acc)

Split(p) ==
    SplitFrom(p, <<>>, <<>>)

\* utils.abs_path with relative_to = None
abs_path(path) ==
    IF path[1] = SEP THEN path ELSE JoinAll(cwd, Split(path))

\* os.path.normpath on the components of an absolute path
RECURSIVE NormComps(_, _)
NormComps(comps, acc) ==
    IF comps = <<>> THEN acc
    ELSE LET c == Head(comps)
         IN  IF c = <<>> \/ c = <<DOT>> THEN NormComps(Tail(comps), acc)
             ELSE IF c = PARDIR
                  THEN NormComps(Tail(comps),
                                 IF acc = <<>> THEN acc
                                 ELSE SubSeq(acc, 1, Len(acc) - 1))
                  ELSE NormComps(Tail(comps), Append(acc, c))

RECURSIVE Render(_)
Render(comps) ==
    IF comps = <<>> THEN <<>>
    ELSE <<SEP>> \o Head(comps) \o Render(Tail(comps))

\* os.path.abspath
abspath(p) ==
    LET comps == NormComps(Split(join(cwd, p)), <<>>)
    IN  IF comps = <<>> THEN <<SEP>> ELSE Render(comps)

\* os.path.exists: a file named with a trailing separator does not resolve
exists(f, p) ==
    LET a == abspath(p)
    IN  \/ a \in f.dirs
        \/ a \in f.files /\ Last(p) # SEP

(***************************************************************************)
(* The configuration keys of default_config, character by character.      *)
(***************************************************************************)
EA_BOWER_FOLDER ==
    <<"E","A","_","B","O","W","E","R","_","F","O","L","D","E","R">>

EA_SCSS_FOLDER ==
    <<"E","A","_","S","C","S","S","_","F","O","L","D","E","R">>

EA_JS_SRC_FOLDER ==
    <<"E","A","_","J","S","_","S","R","C","_","F","O","L","D","E","R">>

EA_TEMPLATES_FOLDER ==
    <<"E","A","_","T","E","M","P","L","A","T","E","S","_","F","O","L","D","E","R">>

EA_PREFIX ==
    <<"E","A","_","P","R","E","F","I","X">>

EA_JINJA_FILTERS ==
    <<"E","A","_","J","I","N","J","A","_","F","I","L","T","E","R","S">>

EA_JINJA_FUNCTIONS ==
    <<"E","A","_","J","I","N","J","A","_","F","U","N","C","T","I","O","N","S">>

EA_JINJA_CONTEXT ==
    <<"E","A","_","J","I","N","J","A","_","C","O","N","T","E","X","T">>

EA_FOLDER_STRUCTURE ==
    <<"E","A","_","F","O","L","D","E","R","_","S","T","R","U","C","T","U","R","E">>

EA_JS_LIBS ==
    <<"E","A","_","J","S","_","L","I","B","S">>

EA_SCSS_LIBS ==
    <<"E","A","_","S","C","S","S","_","L","I","B","S">>

EA_JS_ASSETS ==
    <<"E","A","_","J","S","_","A","S","S","E","T","S">>

EA_CSS_ASSETS ==
    <<"E","A","_","C","S","S","_","A","S","S","E","T","S">>

EA_FILTER_JSMIN ==
    <<"E","A","_","F","I","L","T","E","R","_","J","S","M","I","N">>

EA_FILTER_AUTOPREFIXER ==
    <<"E","A","_","F","I","L","T","E","R","_","A","U","T","O","P","R","E","F","I","X","E","R">>

EA_FILTER_BABEL ==
    <<"E","A","_","F","I","L","T","E","R","_","B","A","B","E","L">>

EA_BABEL_PRESETS ==
    <<"E","A","_","B","A","B","E","L","_","P","R","E","S","E","T","S">>

EA_LIVERELOAD_WATCH_FILES ==
    <<"E","A","_","L","I","V","E","R","E","L","O","A","D","_","W","A","T","C","H","_","F","I","L","E","S">>

\* a key of Flask.default_config, outside the 'EA_' namespace
DEBUG ==
    <<"D","E","B","U","G">>

\* an attribute a configuration object may carry that is not upper-case
ea_prefix ==
    <<"e","a","_","p","r","e","f","i","x">>

\* the namespace prefix of Config.get_namespace('EA_')
EA_ ==
    <<"E","A","_">>

(***************************************************************************)
(* The keys under which the code reads self.config.                        *)
(***************************************************************************)
k_bower_folder ==
    <<"b","o","w","e","r","_","f","o","l","d","e","r">>

k_scss_folder ==
    <<"s","c","s","s","_","f","o","l","d","e","r">>

k_js_src_folder ==
    <<"j","s","_","s","r","c","_","f","o","l","d","e","r">>

k_templates_folder ==
    <<"t","e","m","p","l","a","t","e","s","_","f","o","l","d","e","r">>

k_prefix ==
    <<"p","r","e","f","i","x">>

k_jinja_filters ==
    <<"j","i","n","j","a","_","f","i","l","t","e","r","s">>

k_jinja_functions ==
    <<"j","i","n","j","a","_","f","u","n","c","t","i","o","n","s">>

k_jinja_context ==
    <<"j","i","n","j","a","_","c","o","n","t","e","x","t">>

k_folder_structure ==
    <<"f","o","l","d","e","r","_","s","t","r","u","c","t","u","r","e">>

k_js_libs ==
    <<"j","s","_","l","i","b","s">>

k_scss_libs ==
    <<"s","c","s","s","_","l","i","b","s">>

k_js_assets ==
    <<"j","s","_","a","s","s","e","t","s">>

k_css_assets ==
    <<"c","s","s","_","a","s","s","e","t","s">>

k_filter_jsmin ==
    <<"f","i","l","t","e","r","_","j","s","m","i","n">>

k_filter_autoprefixer ==
    <<"f","i","l","t","e","r","_","a","u","t","o","p","r","e","f","i","x","e","r">>

k_filter_babel ==
    <<"f","i","l","t","e","r","_","b","a","b","e","l">>

k_babel_presets ==
    <<"b","a","b","e","l","_","p","r","e","s","e","t","s">>

k_livereload_watch_files ==
    <<"l","i","v","e","r","e","l","o","a","d","_","w","a","t","c","h","_","f","i","l","e","s">>

(***************************************************************************)
(* default_config.  A JS asset descriptor (output, input) is a record: its *)
(* input is a glob pattern (is_pattern, a string) or a list of files.      *)
(***************************************************************************)
Pattern(out, pat) ==
    [out |-> out, is_pattern |-> TRUE, pattern |-> pat, files |-> <<>>]

FileList(out, files) ==
    [out |-> out, is_pattern |-> FALSE, pattern |-> <<>>, files |-> files]

default_folder_structure ==
    << <<"%(prefix)s", "static", SEP>>,
       <<"%(prefix)s", "static", SEP, "%(scss_folder)s", SEP, "styles", DOT, "scss">>,
       <<"%(prefix)s", "static", SEP>>,
       <<"%(prefix)s", "static", SEP, "%(js_src_folder)s", SEP, "Main", DOT, "js">>,
       <<"%(prefix)s", "static", SEP, "images", SEP>>,
       <<"%(prefix)s", "static", SEP, "fonts", SEP>>,
       <<"%(prefix)s", "%(templates_folder)s", SEP>> >>

default_jinja_filters ==
    [breaks |-> "add_br", copyright |-> "copyright_year",
     currency |-> "format_currency", date |-> "format_date",
     datetime |-> "format_datetime", http |-> "add_http", https |-> "add_https",
     leading_zero |-> "leading_zero", paragraphs |-> "add_p",
     no_breaks |-> "remove_linebreaks", slug |-> "gen_slug"]

default_jinja_functions ==
    [next_year |-> "next_year", random_string |-> "random_string",
     gen_years |-> "relative_years"]

default_jinja_context ==
    [highlight |-> "highlight_link"]

default_livereload_watch_files ==
    << <<"%(prefix)s", "static", SEP, "%(scss_folder)s", SEP, "*", DOT, "scss">>,
       <<"%(prefix)s", "static", SEP, "%(js_src_folder)s", SEP, "*", DOT, "js">>,
       <<"%(prefix)s", "%(templates_folder)s", SEP, "*", DOT, "html">> >>

default_config ==
    (EA_BOWER_FOLDER :> <<"bower_components">>)
    @@ (EA_SCSS_FOLDER :> <<"scss">>)
    @@ (EA_JS_SRC_FOLDER :> <<"js_src">>)
    @@ (EA_TEMPLATES_FOLDER :> <<"templates">>)
    @@ (EA_PREFIX :> <<>>)
    @@ (EA_JINJA_FILTERS :> default_jinja_filters)
    @@ (EA_JINJA_FUNCTIONS :> default_jinja_functions)
    @@ (EA_JINJA_CONTEXT :> default_jinja_context)
    @@ (EA_FOLDER_STRUCTURE :> default_folder_structure)
    @@ (EA_JS_LIBS :> << <<"jquery", SEP, "dist", SEP, "jquery", DOT, "min", DOT, "js">> >>)
    @@ (EA_SCSS_LIBS :> << <<"bootstrap", SEP, "scss">> >>)
    @@ (EA_JS_ASSETS :> << Pattern(<<"scripts", DOT, "js">>, <<"*", DOT, "js">>) >>)
    @@ (EA_CSS_ASSETS :> << <<"styles", DOT, "scss">> >>)
    @@ (EA_FILTER_JSMIN :> FALSE)
    @@ (EA_FILTER_AUTOPREFIXER :> FALSE)
    @@ (EA_FILTER_BABEL :> FALSE)
    @@ (EA_BABEL_PRESETS :>
          <<SEP, "usr", SEP, "local", SEP, "lib", SEP, "node_modules", SEP,
            "babel-preset-es2015">>)
    @@ (EA_LIVERELOAD_WATCH_FILES :> default_livereload_watch_files)

\* Flask.default_config, as far as the merge sees it: keys outside 'EA_'
flask_default_config ==
    (DEBUG :> FALSE)

(***************************************************************************)
(* EnhancedApp.__init__, lines 74-81: the configuration merge.             *)
(***************************************************************************)
\* Config.from_object: the upper-case attributes of the object
from_object(cfg, obj) ==
    LET taken == {a \in DOMAIN obj : isupper(a)}
    IN  [k \in DOMAIN cfg \cup taken |-> IF k \in taken THEN obj[k] ELSE cfg[k]]

\* a faulty merge: the defaults overwrite what the caller set
DefaultsWin(cfg) ==
    [k \in DOMAIN cfg \cup DOMAIN default_config |->
        IF k \in DOMAIN default_config THEN default_config[k] ELSE cfg[k]]

\* for k, v in default_config.items(): config.setdefault(k, v)
setdefaults(cfg) ==
    [k \in DOMAIN cfg \cup DOMAIN default_config |->
        IF k \in DOMAIN cfg THEN cfg[k] ELSE default_config[k]]

\* Config.get_namespace(namespace): the keys that start with the namespace,
\* the namespace cut off, lower-cased
get_namespace(cfg, namespace) ==
    LET inside == {k \in DOMAIN cfg : StartsWith(k, namespace)}
        short(k) == lower(SubSeq(k, Len(namespace) + 1, Len(k)))
    IN  [n \in {short(k) : k \in inside} |->
            cfg[CHOOSE k \in inside : short(k) = n]]

(***************************************************************************)
(* The configuration objects a caller may pass: at most MaxOverrides       *)
(* attributes, each with a value of the type the code expects.             *)
(***************************************************************************)
Attributes ==
    { <<EA_PREFIX, <<"admin", SEP>> >>,
      <<EA_SCSS_FOLDER, <<"sass">> >>,
      <<EA_FOLDER_STRUCTURE,
        << <<"%(prefix)s", "static", SEP, "css", SEP>>,
           <<"%(prefix)s", "static", SEP, "%(scss_folder)s", SEP, "styles", DOT, "scss">>,
           <<"%(prefix)s", "%(templates_folder)s", SEP>> >> >>,
      <<EA_FOLDER_STRUCTURE,
        << <<"%(prefix)s", "static", SEP, "v1", DOT, "0", SEP, "app", DOT, "js">> >> >>,
      <<EA_JINJA_FILTERS, [slug |-> "gen_slug", T |-> "translate"]>>,
      <<EA_JINJA_CONTEXT, [highlight |-> "highlight_link", active |-> "active_link"]>>,
      <<EA_JS_LIBS, <<>> >>,
      <<EA_SCSS_LIBS, <<>> >>,
      <<EA_SCSS_LIBS,
        << <<"bootstrap", SEP, "scss">>, <<SEP, "opt", SEP, "bourbon">> >> >>,
      <<EA_JS_ASSETS,
        << Pattern(<<"app", DOT, "js">>, <<"*", DOT, "js">>),
           FileList(<<"app", DOT, "js">>, << <<"extra", DOT, "js">> >>) >> >>,
      <<EA_CSS_ASSETS, << <<"styles">>, <<"admin">> >> >>,
      <<EA_CSS_ASSETS, << <<"styles">>, <<"styles">> >> >>,
      <<EA_FILTER_JSMIN, TRUE>>,
      <<EA_FILTER_BABEL, TRUE>>,
      <<EA_FILTER_AUTOPREFIXER, TRUE>>,
      <<ea_prefix, <<"ignored_">> >> }

RECURSIVE ConfigObjects(_)
ConfigObjects(n) ==
    IF n = 0 THEN {<<>>}
    ELSE LET smaller == ConfigObjects(n - 1)
         IN  smaller \cup
             UNION {{o @@ (a[1] :> a[2]) : a \in {x \in Attributes : x[1] \notin DOMAIN o}}
                    : o \in smaller}

(***************************************************************************)
(* The filesystem and EnhancedApp._create_path.  A run of _create_path is  *)
(* a record [dirs, files, log, ok]: ok is FALSE once a call of the OS      *)
(* raised, and whatever was created before it stays created.               *)
(***************************************************************************)
dirname(a) ==
    abspath(join(a, PARDIR))

basename(a) ==
    Last(Split(a))

\* os.mkdir: the parent must be a directory and the path must be free
mkdir(st, path) ==
    LET a == abspath(path)
    IN  IF dirname(a) \in st.dirs /\ a \notin st.dirs \cup st.files
        THEN [st EXCEPT !.dirs = @ \cup {a}, !.log = Append(@, a)]
        ELSE [st EXCEPT !.ok = FALSE]

\* open(path, 'w').close(): the parent must be a directory
open_w(st, path) ==
    LET a == abspath(path)
    IN  IF dirname(a) \in st.dirs /\ a \notin st.dirs /\ Last(path) # SEP
        THEN [st EXCEPT !.files = @ \cup {a},
                        !.log = IF a \in st.files THEN @ ELSE Append(@, a)]
        ELSE [st EXCEPT !.ok = FALSE]

\* line 239: the path is a file when its last '.' comes after its last separator
is_file_path(path) ==
    RFind(path, DOT) > RFind(path, SEP)

\* The loop of line 236 runs its body once: the call creates the parent or raises.
RECURSIVE _create_path(_, _)
_create_path(st, path) ==
    IF ~st.ok \/ exists(st, path) THEN st
    ELSE LET parent == dirname(path)
             st1 == IF exists(st, parent) THEN st ELSE _create_path(st, parent)
         IN  IF ~st1.ok THEN st1
             ELSE IF is_file_path(path) THEN open_w(st1, path)
             ELSE mkdir(st1, path)

\* the key a placeholder token names
PlaceholderKey ==
    ("%(prefix)s" :> k_prefix)
    @@ ("%(scss_folder)s" :> k_scss_folder)
    @@ ("%(js_src_folder)s" :> k_js_src_folder)
    @@ ("%(templates_folder)s" :> k_templates_folder)
    @@ ("%(bower_folder)s" :> k_bower_folder)

\* f % self.config
RECURSIVE Format(_, _)
Format(f, cfg) ==
    IF f = <<>> THEN <<>>
    ELSE (IF Head(f) \in DOMAIN PlaceholderKey
          THEN cfg[PlaceholderKey[Head(f)]]
          ELSE <<Head(f)>>) \o Format(Tail(f), cfg)

\* the project roots the constructor may find
InitialFs ==
    LET root == {<<SEP>>, cwd}
        static == cwd \o <<SEP, "static">>
        js == static \o <<SEP, "js_src">>
    IN  { [dirs |-> root, files |-> {}],
          [dirs |-> root \cup {cwd \o <<SEP, "templates">>}, files |-> {}],
          [dirs |-> root \cup {static, js, static \o <<SEP, "scss">>},
           files |-> {js \o <<SEP, "a", DOT, "js">>,
                      js \o <<SEP, "b", DOT, "js">>,
                      static \o <<SEP, "scss", SEP, "styles", DOT, "scss">>}] }

(***************************************************************************)
(* EnhancedApp.__init__ step by step.                                      *)
(***************************************************************************)
\* lines 74-81
merge_config ==
    /\ pc = "start"
    /\ app_config' = setdefaults(from_object(flask_default_config, config_file))
    /\ config' = get_namespace(app_config', EA_)
    /\ pc' = "scaffold"
    /\ UNCHANGED <<config_file, fs, created, sc_i, env_filters, env_globals,
                   scss_path, js_src_path, bower_path, js_filters, css_filters,
                   depends_scss, js_asset_names, css_asset_names, named_bundles,
                   registered, as_i, handlers, response>>
    /\ UNCHANGED outside_vars

\* the path of the template in turn
TemplatePath(i) ==
    Format(config[k_folder_structure][i], config)

scaffold_unchanged ==
    /\ UNCHANGED <<config_file, app_config, config, env_filters, env_globals,
                   scss_path, js_src_path, bower_path, js_filters, css_filters,
                   depends_scss, js_asset_names, css_asset_names, named_bundles,
                   registered, as_i, handlers, response>>
    /\ UNCHANGED outside_vars

\* a faulty loop: an existing path is skipped and the loop goes on
scaffold_continue ==
    /\ pc = "scaffold"
    /\ sc_i <= Len(config[k_folder_structure])
    /\ exists(fs, TemplatePath(sc_i))
    /\ sc_i' = sc_i + 1
    /\ UNCHANGED <<pc, fs, created>>
    /\ scaffold_unchanged

\* lines 123-124: the path exists, break
scaffold_break ==
    /\ pc = "scaffold"
    /\ sc_i <= Len(config[k_folder_structure])
    /\ exists(fs, TemplatePath(sc_i))
    /\ pc' = "jinja"
    /\ UNCHANGED <<fs, created, sc_i>>
    /\ scaffold_unchanged

\* line 125: the path is missing, _create_path
scaffold_create ==
    /\ pc = "scaffold"
    /\ sc_i <= Len(config[k_folder_structure])
    /\ ~exists(fs, TemplatePath(sc_i))
    /\ LET st == _create_path([dirs |-> fs.dirs, files |-> fs.files,
                               log |-> created, ok |-> TRUE],
                              TemplatePath(sc_i))
       IN  /\ fs' = [dirs |-> st.dirs, files |-> st.files]
           /\ created' = st.log
           /\ IF st.ok
              THEN /\ sc_i' = sc_i + 1
                   /\ pc' = pc
              ELSE /\ sc_i' = sc_i
                   /\ pc' = "failed"
    /\ scaffold_unchanged

\* the list is exhausted
scaffold_end ==
    /\ pc = "scaffold"
    /\ sc_i > Len(config[k_folder_structure])
    /\ pc' = "jinja"
    /\ UNCHANGED <<fs, created, sc_i>>
    /\ scaffold_unchanged

(***************************************************************************)
(* enhance_jinja, lines 127-144.                                           *)
(***************************************************************************)
\* the names of the module utils: what it defines and what it imports
utils ==
    {"os", "random", "string", "re", "datetime", "unicodedata", "request",
     "abs_path", "clean_filename", "random_string", "gen_slug", "add_http",
     "add_https", "leading_zero", "format_currency", "format_date",
     "format_datetime", "add_p", "add_br", "remove_linebreaks",
     "highlight_link", "relative_years", "next_year", "copyright_year"}

rest_unchanged ==
    /\ UNCHANGED <<config_file, app_config, config, fs, created, sc_i, handlers,
                   response>>
    /\ UNCHANGED outside_vars

\* getattr(utils, v) raises for a name utils does not define
enhance_jinja ==
    /\ pc = "jinja"
    /\ LET filters == config[k_jinja_filters]
           functions == config[k_jinja_functions]
       IN  IF /\ \A k \in DOMAIN filters : filters[k] \in utils
              /\ \A k \in DOMAIN functions : functions[k] \in utils
           THEN /\ env_filters' = filters
                /\ env_globals' = functions
                /\ pc' = "assets"
           ELSE /\ UNCHANGED <<env_filters, env_globals>>
                /\ pc' = "failed"
    /\ UNCHANGED <<scss_path, js_src_path, bower_path, js_filters, css_filters,
                   depends_scss, js_asset_names, css_asset_names, named_bundles,
                   registered, as_i>>
    /\ rest_unchanged

\* what a failed getattr(utils, v) raises
AttributeError ==
    "AttributeError"

\* lines 139-144: the context processor enhance_jinja installs.  It runs when
\* a template is rendered, and looks the names of jinja_context up then.
gen_jinja_context(cfg) ==
    LET names == cfg[k_jinja_context]
    IN  IF \A k \in DOMAIN names : names[k] \in utils
        THEN [ok |-> TRUE, obj |-> names]
        ELSE [ok |-> FALSE, obj |-> <<>>]

\* flask.render_template: the context processors run, then the template is
\* rendered; the result is the page, or the exception a processor raised
render_template(cfg, template) ==
    IF gen_jinja_context(cfg).ok THEN template ELSE AttributeError

(***************************************************************************)
(* enhance_assets, lines 106-182.  A filter is a record [name, presets,    *)
(* includes]; a bundle is [contents, output, filters, depends].            *)
(***************************************************************************)
Filter(name, presets, includes) ==
    [name |-> name, presets |-> presets, includes |-> includes]

\* line 244
to_static_path(cfg, filename) ==
    join(abs_path(cfg[k_prefix] \o <<"static">>), filename)

\* a faulty chain: the transpiler is put before the minifier
JsFiltersBabelFirst(cfg) ==
    (IF cfg[k_filter_babel]
     THEN <<Filter("babel", cfg[k_babel_presets], <<>>)>> ELSE <<>>)
    \o (IF cfg[k_filter_jsmin] THEN <<Filter("jsmin", <<>>, <<>>)>> ELSE <<>>)

\* lines 152-156, from self.js_filters = [] of line 109
JsFilters(cfg) ==
    (IF cfg[k_filter_jsmin] THEN <<Filter("jsmin", <<>>, <<>>)>> ELSE <<>>)
    \o (IF cfg[k_filter_babel]
        THEN <<Filter("babel", cfg[k_babel_presets], <<>>)>> ELSE <<>>)

\* lines 158-161: include_scss
IncludeScss(cfg, scss, bower) ==
    <<scss>> \o [i \in 1..Len(cfg[k_scss_libs]) |-> join(bower, cfg[k_scss_libs][i])]

\* a faulty list: the project's own folder is left out
DependsScssLibsOnly(cfg, scss, bower) ==
    [i \in 1..Len(cfg[k_scss_libs]) |->
        join(join(bower, cfg[k_scss_libs][i]), <<"*", DOT, "scss">>)]

\* lines 159-162: self.depends_scss
DependsScss(cfg, scss, bower) ==
    <<join(scss, <<"*", DOT, "scss">>)>>
    \o [i \in 1..Len(cfg[k_scss_libs]) |->
          join(join(bower, cfg[k_scss_libs][i]), <<"*", DOT, "scss">>)]

\* lines 163-169
CssFilters(cfg, scss, bower) ==
    <<Filter("libsass", <<>>, IncludeScss(cfg, scss, bower))>>
    \o (IF cfg[k_filter_autoprefixer]
        THEN <<Filter("autoprefixer", <<>>, <<>>)>> ELSE <<>>)

\* lines 106-169: the paths, the filter chains and the dependency globs
enhance_assets_filters ==
    /\ pc = "assets"
    /\ scss_path' = abs_path(to_static_path(config, config[k_scss_folder]))
    /\ js_src_path' = abs_path(to_static_path(config, config[k_js_src_folder]))
    /\ bower_path' = abs_path(config[k_bower_folder])
    /\ js_filters' = JsFilters(config)
    /\ depends_scss' = DependsScss(config, scss_path', bower_path')
    /\ css_filters' = CssFilters(config, scss_path', bower_path')
    /\ as_i' = 1
    /\ pc' = "js"
    /\ UNCHANGED <<env_filters, env_globals, js_asset_names, css_asset_names,
                   named_bundles, registered>>
    /\ rest_unchanged

\* a faulty order: the libraries bundle is registered after the scripts
JsCallsLibsLast(cfg, bower) ==
    cfg[k_js_assets]
    \o (LET libs == [i \in 1..Len(cfg[k_js_libs]) |-> join(bower, cfg[k_js_libs][i])]
        IN  IF libs # <<>> THEN <<FileList(<<"libs", DOT, "js">>, libs)>> ELSE <<>>)

\* lines 172-178: the add_js_asset calls enhance_assets makes, in order
JsCalls(cfg, bower) ==
    (LET libs == [i \in 1..Len(cfg[k_js_libs]) |-> join(bower, cfg[k_js_libs][i])]
     IN  IF libs # <<>> THEN <<FileList(<<"libs", DOT, "js">>, libs)>> ELSE <<>>)
    \o cfg[k_js_assets]

\* fnmatch of a file name against a pattern that is literal or '*' + suffix;
\* '*' does not match a leading '.'
fnmatch(name, pat) ==
    IF "*" \notin Range(pat) THEN name = pat
    ELSE /\ pat[1] = "*"
         /\ EndsWith(name, Tail(pat))
         /\ name[1] # DOT

\* glob.glob(pathname): the matching entries of the pattern's directory
glob(f, pathname) ==
    {join(dirname(pathname), basename(a)) :
        a \in {x \in f.dirs \cup f.files :
                 /\ x # <<SEP>>
                 /\ dirname(x) = dirname(pathname)
                 /\ fnmatch(basename(x), basename(pathname))}}

Bundle(contents, output, filters, depends) ==
    [contents |-> contents, output |-> output, filters |-> filters,
     depends |-> depends]

Call(kind, name, bundle) ==
    [kind |-> kind, name |-> name, bundle |-> bundle]

\* assets_env.register(name, bundle) when the name is free
register(bundles, name, b) ==
    [n \in DOMAIN bundles \cup {name} |-> IF n = name THEN b ELSE bundles[n]]

\* lines 184-192.  glob lists the folder in the order of the OS; the value of
\* sorted(scripts, reverse=True) is dropped, so that order is kept.
\* A name already registered: the environment, a library, either replaces
\* the bundle or raises.
add_js_asset ==
    /\ pc = "js"
    /\ as_i <= Len(JsCalls(config, bower_path))
    /\ LET asset == JsCalls(config, bower_path)[as_i]
           output_file == asset.out
       IN  \E scripts \in IF asset.is_pattern
                          THEN Orderings(glob(fs, join(js_src_path, asset.pattern)))
                          ELSE {asset.files} :
             LET b == Bundle(scripts, to_static_path(config, output_file),
                             js_filters, <<>>)
             IN  \/ /\ named_bundles' = register(named_bundles, output_file, b)
                    /\ registered' = Append(registered, Call("js", output_file, b))
                    /\ js_asset_names' = Append(js_asset_names, output_file)
                    /\ as_i' = as_i + 1
                    /\ pc' = pc
                 \/ /\ output_file \in DOMAIN named_bundles
                    /\ pc' = "failed"
                    /\ UNCHANGED <<named_bundles, registered, js_asset_names, as_i>>
    /\ UNCHANGED <<env_filters, env_globals, scss_path, js_src_path, bower_path,
                   js_filters, css_filters, depends_scss, css_asset_names>>
    /\ rest_unchanged

\* line 181: the JS assets are done, the CSS assets follow
js_assets_end ==
    /\ pc = "js"
    /\ as_i > Len(JsCalls(config, bower_path))
    /\ pc' = "css"
    /\ as_i' = 1
    /\ UNCHANGED <<env_filters, env_globals, scss_path, js_src_path, bower_path,
                   js_filters, css_filters, depends_scss, js_asset_names,
                   css_asset_names, named_bundles, registered>>
    /\ rest_unchanged

\* lines 194-201
add_css_asset ==
    /\ pc = "css"
    /\ as_i <= Len(config[k_css_assets])
    /\ LET base_file == config[k_css_assets][as_i]
           input_file == base_file \o <<DOT, "scss">>
           output_file == base_file \o <<DOT, "css">>
           b == Bundle(<<join(scss_path, input_file)>>,
                       to_static_path(config, output_file),
                       css_filters, depends_scss)
       IN  \/ /\ named_bundles' = register(named_bundles, output_file, b)
              /\ registered' = Append(registered, Call("css", output_file, b))
              /\ css_asset_names' = Append(css_asset_names, output_file)
              /\ as_i' = as_i + 1
              /\ pc' = pc
           \/ /\ output_file \in DOMAIN named_bundles
              /\ pc' = "failed"
              /\ UNCHANGED <<named_bundles, registered, css_asset_names, as_i>>
    /\ UNCHANGED <<env_filters, env_globals, scss_path, js_src_path, bower_path,
                   js_filters, css_filters, depends_scss, js_asset_names>>
    /\ rest_unchanged

\* __init__ returns
css_assets_end ==
    /\ pc = "css"
    /\ as_i > Len(config[k_css_assets])
    /\ pc' = "done"
    /\ UNCHANGED <<env_filters, env_globals, scss_path, js_src_path, bower_path,
                   js_filters, css_filters, depends_scss, js_asset_names,
                   css_asset_names, named_bundles, registered, as_i>>
    /\ rest_unchanged

(***************************************************************************)
(* run_livereload, lines 203-215.                                          *)
(***************************************************************************)
\* no livereload.Server yet.  A server holds the paths watched, the serve
\* calls made on it, and whether it is running.
NoServer ==
    [watches |-> <<>>, serve |-> <<>>, running |-> FALSE]

\* def run_livereload(self, port=8080)
default_port ==
    8080

\* the calls the application's author may make: run_livereload(), or with a port
PortArgs ==
    {<<>>, <<5000>>}

\* host='0.0.0.0'
all_interfaces ==
    <<"0", DOT, "0", DOT, "0", DOT, "0">>

\* the static and constructor state run_livereload leaves alone
live_unchanged ==
    /\ UNCHANGED <<config_file, config, fs, created, sc_i, env_filters,
                   scss_path, js_src_path, bower_path, js_filters, css_filters,
                   depends_scss, js_asset_names, css_asset_names, named_bundles,
                   registered, as_i, handlers, response>>
    /\ UNCHANGED <<slug_vars, date_vars>>

\* lines 209-212.  app.debug is the DEBUG key of app.config.
run_livereload ==
    /\ pc = "done"
    /\ \E args \in PortArgs :
          /\ lr_args' = args
          /\ port' = IF args = <<>> THEN default_port ELSE args[1]
    /\ app_config' = [app_config EXCEPT ![DEBUG] = TRUE]
    /\ env_globals' = [k \in DOMAIN env_globals \cup {"livereload"} |->
                          IF k = "livereload" THEN TRUE ELSE env_globals[k]]
    /\ auto_reload' = TRUE
    /\ server' = NoServer
    /\ lr_i' = 1
    /\ pc' = "watch"
    /\ live_unchanged

\* a faulty path: the pattern is watched with its placeholders unresolved
WatchPathUnformatted(f, cfg) ==
    abs_path(f)

\* line 214: abs_path(f % self.config)
WatchPath(f, cfg) ==
    abs_path(Format(f, cfg))

\* lines 213-214
server_watch ==
    /\ pc = "watch"
    /\ lr_i <= Len(config[k_livereload_watch_files])
    /\ server' = [server EXCEPT !.watches =
                      Append(@, WatchPath(config[k_livereload_watch_files][lr_i], config))]
    /\ lr_i' = lr_i + 1
    /\ UNCHANGED <<pc, app_config, env_globals, auto_reload, lr_args, port>>
    /\ live_unchanged

\* line 215: serve does not return while the server runs
server_serve ==
    /\ pc = "watch"
    /\ lr_i > Len(config[k_livereload_watch_files])
    /\ server' = [server EXCEPT
                      !.serve = Append(@, [port |-> port, host |-> all_interfaces]),
                      !.running = TRUE]
    /\ pc' = "serving"
    /\ UNCHANGED <<app_config, env_globals, auto_reload, lr_i, lr_args, port>>
    /\ live_unchanged

\* the server is stopped from outside (an interrupt): serve returns, and
\* run_livereload with it
server_stopped ==
    /\ pc = "serving"
    /\ server' = [server EXCEPT !.running = FALSE]
    /\ pc' = "returned"
    /\ UNCHANGED <<app_config, env_globals, auto_reload, lr_i, lr_args, port>>
    /\ live_unchanged

(***************************************************************************)
(* add_error_handlers, lines 217-230, and the answer to a failed request.  *)
(* __init__ does not call add_error_handlers: it runs when the             *)
(* application's author calls it.                                          *)
(***************************************************************************)
favicon ==
    <<SEP, "favicon", DOT, "ico">>

RequestPaths ==
    {favicon, <<SEP, "missing">>}

ErrorCodes ==
    {403, 404, 410}

Response(status, body) ==
    [status |-> status, body |-> body]

\* lines 218-220
content_gone(path) ==
    Response(410, render_template(config, "410.html"))

\* lines 222-224
access_denied(path) ==
    Response(403, render_template(config, "403.html"))

\* lines 226-230
content_not_found(path) ==
    IF path = favicon THEN Response(404, "Not found")
    ELSE Response(404, render_template(config, "404.html"))

\* the exchange: the path requested and the answer to it
Exchange(path, answer) ==
    [request |-> path, status |-> answer.status, body |-> answer.body]

NoExchange ==
    [request |-> <<>>, status |-> 0, body |-> "none"]

add_error_handlers ==
    /\ pc = "done"
    /\ handlers' = {410, 403, 404}
    /\ UNCHANGED <<pc, config_file, app_config, config, fs, created, sc_i,
                   env_filters, env_globals, scss_path, js_src_path, bower_path,
                   js_filters, css_filters, depends_scss, js_asset_names,
                   css_asset_names, named_bundles, registered, as_i, response>>
    /\ UNCHANGED outside_vars

\* a handler that raised: the framework answers 500
Answer(r) ==
    IF r.body = AttributeError THEN Response(500, AttributeError) ELSE r

\* a request that ends in an HTTP error: the handler registered for the
\* status code answers, and the framework's own error page when there is none
handle_error ==
    /\ pc = "done"
    /\ \E code \in ErrorCodes, path \in RequestPaths :
          response' = Exchange(path,
                          IF code \notin handlers THEN Response(code, "framework default")
                          ELSE IF code = 410 THEN Answer(content_gone(path))
                          ELSE IF code = 403 THEN Answer(access_denied(path))
                          ELSE Answer(content_not_found(path)))
    /\ UNCHANGED <<pc, config_file, app_config, config, fs, created, sc_i,
                   env_filters, env_globals, scss_path, js_src_path, bower_path,
                   js_filters, css_filters, depends_scss, js_asset_names,
                   css_asset_names, named_bundles, registered, as_i, handlers>>
    /\ UNCHANGED outside_vars

(***************************************************************************)
(* utils.gen_slug, lines 56-77.  A text is a sequence of characters;       *)
(* "a_acute" stands for the one character U+00E1 and "combining_acute" for *)
(* U+0301, of category Mn.                                                 *)
(***************************************************************************)
Digits ==
    <<"0","1","2","3","4","5","6","7","8","9">>

Chars ==
    {"a", "A", "1", " ", "-", "a_acute"}

\* unicodedata.normalize('NFD', c)
NFD(c) ==
    IF c = "a_acute" THEN <<"a", "combining_acute">> ELSE <<c>>

\* line 70: decompose, drop the marks of category Mn
RECURSIVE strip_accents(_)
strip_accents(s) ==
    IF s = <<>> THEN <<>>
    ELSE SelectSeq(NFD(Head(s)), LAMBDA c : c # "combining_acute")
         \o strip_accents(Tail(s))

IsAlnum(c) ==
    c \in Range(UpperCase) \cup Range(LowerCase) \cup Range(Digits)

\* re.sub('([^a-zA-Z\d]|\s)+', replace_char, s): every maximal run of
\* characters that are not letters or digits becomes one replace_char
RECURSIVE re_sub(_, _, _)
re_sub(s, replace_char, in_run) ==
    IF s = <<>> THEN <<>>
    ELSE IF IsAlnum(Head(s)) THEN <<Head(s)>> \o re_sub(Tail(s), replace_char, FALSE)
    ELSE (IF in_run THEN <<>> ELSE <<replace_char>>)
         \o re_sub(Tail(s), replace_char, TRUE)

\* str.strip(chars) for one character
RECURSIVE strip(_, _)
strip(s, c) ==
    IF s = <<>> THEN s
    ELSE IF Head(s) = c THEN strip(Tail(s), c)
    ELSE IF Last(s) = c THEN strip(SubSeq(s, 1, Len(s) - 1), c)
    ELSE s

\* lines 70-71
base_slug(text, replace_char) ==
    strip(lower(re_sub(strip_accents(text), replace_char, FALSE)), replace_char)

\* '%i' % n, n >= 0
RECURSIVE Decimal(_)
Decimal(n) ==
    IF n < 10 THEN <<Digits[n + 1]>>
    ELSE Decimal(n \div 10) \o <<Digits[(n % 10) + 1]>>

\* a faulty suffix: the numbering is one ahead
format_slug_ahead(b, n) ==
    b \o <<"-">> \o Decimal(n + 1)

\* line 75: '%s-%i' % (base, counter)
format_slug(b, n) ==
    b \o <<"-">> \o Decimal(n)

Texts ==
    UNION {[1..n -> Chars] : n \in 0..MaxLen}

SlugPool ==
    {<<"a">>, <<"a","-","1">>, <<"a","-","2">>, <<"a","-","1","-","1">>}

\* lines 70-73
gen_slug_base ==
    /\ sl_pc = "call"
    /\ base' = base_slug(input_string, "-")
    /\ slug' = base'
    /\ counter' = 1
    /\ sl_pc' = "loop"
    /\ UNCHANGED <<input_string, existing_slugs>>
    /\ UNCHANGED <<app_vars, date_vars>>

\* lines 74-76
gen_slug_loop ==
    /\ sl_pc = "loop"
    /\ slug \in existing_slugs
    /\ slug' = format_slug(base, counter)
    /\ counter' = counter + 1
    /\ UNCHANGED <<sl_pc, input_string, existing_slugs, base>>
    /\ UNCHANGED <<app_vars, date_vars>>

\* line 77
gen_slug_return ==
    /\ sl_pc = "loop"
    /\ slug \notin existing_slugs
    /\ sl_pc' = "done"
    /\ UNCHANGED <<input_string, existing_slugs, base, slug, counter>>
    /\ UNCHANGED <<app_vars, date_vars>>

(***************************************************************************)
(* utils.format_datetime, lines 140-153.  A Python value is a record whose *)
(* field type names its class; a str holds its characters, a datetime its  *)
(* fields.                                                                 *)
(***************************************************************************)
None ==
    [type |-> "NoneType"]

Str(chars) ==
    [type |-> "str", chars |-> chars]

Integer(n) ==
    [type |-> "int", n |-> n]

Date(year, month, day) ==
    [type |-> "date", year |-> year, month |-> month, day |-> day]

Datetime(year, month, day, hour, minute) ==
    [type |-> "datetime", year |-> year, month |-> month, day |-> day,
     hour |-> hour, minute |-> minute]

\* bool(v): None, the empty str and 0 are false
truth(v) ==
    /\ v # None
    /\ v.type = "str" => v.chars # <<>>
    /\ v.type = "int" => v.n # 0

\* type(v): the class object of the value
type(v) ==
    [class |-> v.type]

\* a == b of two Python objects: objects of different kinds are not equal
eq(a, b) ==
    /\ DOMAIN a = DOMAIN b
    /\ a = b

\* '%02d' % n
Pad2(n) ==
    IF n < 10 THEN <<"0">> \o Decimal(n) ELSE Decimal(n)

\* one directive or literal of a strftime format
Directive(v, t) ==
    IF t = "%d" THEN Pad2(v.day)
    ELSE IF t = "%m" THEN Pad2(v.month)
    ELSE IF t = "%Y" THEN Decimal(v.year)
    ELSE IF t = "%H" THEN Pad2(v.hour)
    ELSE IF t = "%M" THEN Pad2(v.minute)
    ELSE <<t>>

\* v.strftime(f): the characters of the formatted text
RECURSIVE strftime(_, _)
strftime(v, f) ==
    IF f = <<>> THEN <<>>
    ELSE Directive(v, Head(f)) \o strftime(v, Tail(f))

\* the default of the parameter format: '%d/%m/%Y %H:%M'
default_format ==
    <<"%d", "/", "%m", "/", "%Y", " ", "%H", ":", "%M">>

\* lines 149-153
format_datetime(v, f) ==
    IF ~truth(v) THEN Str(<<>>)
    ELSE IF ~eq(type(v), Str(<<"d","a","t","e","t","i","m","e">>)) THEN v
    ELSE Str(strftime(v, f))

\* the values a template hands to the filter
Values ==
    {None, Str(<<>>), Str(<<"n", "/", "a">>), Integer(0), Integer(7), Date(2024, 2, 29)}
    \cup {Datetime(y, mo, dd, h, mi) :
             y \in {1999, 2024}, mo \in {1, 12}, dd \in {5, 31},
             h \in {0, 23}, mi \in {7, 59}}

Formats ==
    {default_format, <<"%Y", "-", "%m", "-", "%d">>, <<"%H", ":", "%M">>}

\* format_datetime(d, format) is called and returns
call_format_datetime ==
    /\ fd_pc = "call"
    /\ fd_result' = format_datetime(d, format)
    /\ fd_pc' = "done"
    /\ UNCHANGED <<d, format>>
    /\ UNCHANGED <<app_vars, slug_vars>>

(***************************************************************************)
(* The specifications.                                                     *)
(***************************************************************************)
\* run_livereload has not been called
NoLive ==
    /\ auto_reload = FALSE
    /\ server = NoServer
    /\ lr_i = 1
    /\ lr_args = <<>>
    /\ port = 0

NoDate ==
    /\ fd_pc = "idle"
    /\ d = None
    /\ format = <<>>
    /\ fd_result = None

\* the arguments of EnhancedApp(config_file = ...) and the project root
InitApp ==
    /\ pc = "start"
    /\ config_file \in ConfigObjects(MaxOverrides)
    /\ fs \in InitialFs
    /\ app_config = <<>>
    /\ config = <<>>
    /\ created = <<>>
    /\ sc_i = 1
    /\ env_filters = <<>>
    /\ env_globals = <<>>
    /\ scss_path = <<>>
    /\ js_src_path = <<>>
    /\ bower_path = <<>>
    /\ js_filters = <<>>
    /\ css_filters = <<>>
    /\ depends_scss = <<>>
    /\ js_asset_names = <<>>
    /\ css_asset_names = <<>>
    /\ named_bundles = <<>>
    /\ registered = <<>>
    /\ as_i = 1
    /\ handlers = {}
    /\ response = NoExchange

NoSlug ==
    /\ sl_pc = "idle"
    /\ input_string = <<>>
    /\ existing_slugs = {}
    /\ base = <<>>
    /\ slug = <<>>
    /\ counter = 0

NoApp ==
    /\ pc = "idle"
    /\ config_file = <<>>
    /\ fs = [dirs |-> {<<SEP>>, cwd}, files |-> {}]
    /\ app_config = <<>>
    /\ config = <<>>
    /\ created = <<>>
    /\ sc_i = 1
    /\ env_filters = <<>>
    /\ env_globals = <<>>
    /\ scss_path = <<>>
    /\ js_src_path = <<>>
    /\ bower_path = <<>>
    /\ js_filters = <<>>
    /\ css_filters = <<>>
    /\ depends_scss = <<>>
    /\ js_asset_names = <<>>
    /\ css_asset_names = <<>>
    /\ named_bundles = <<>>
    /\ registered = <<>>
    /\ as_i = 1
    /\ handlers = {}
    /\ response = NoExchange

\* EnhancedApp(config_file = ...) on a project root
Init ==
    /\ InitApp
    /\ NoLive
    /\ NoSlug
    /\ NoDate

Next ==
    \/ merge_config
    \/ scaffold_break
    \/ scaffold_create
    \/ scaffold_end
    \/ enhance_jinja
    \/ enhance_assets_filters
    \/ add_js_asset
    \/ js_assets_end
    \/ add_css_asset
    \/ css_assets_end
    \/ add_error_handlers
    \/ handle_error

Spec ==
    Init /\ [][Next]_vars

\* gen_slug(input_string, existing_slugs)
InitSlug ==
    /\ NoApp
    /\ NoLive
    /\ NoDate
    /\ sl_pc = "call"
    /\ input_string \in Texts
    /\ existing_slugs \in SUBSET SlugPool
    /\ base = <<>>
    /\ slug = <<>>
    /\ counter = 0

NextSlug ==
    \/ gen_slug_base
    \/ gen_slug_loop
    \/ gen_slug_return

\* the loop of gen_slug is run by one thread: a step that can be taken is taken
SpecSlug ==
    InitSlug /\ [][NextSlug]_vars /\ WF_vars(NextSlug)

\* the configuration objects of the development-server runs
LiveAttributes ==
    { <<EA_PREFIX, <<"admin", SEP>> >>,
      <<EA_SCSS_FOLDER, <<"sass">> >>,
      <<EA_TEMPLATES_FOLDER, <<"views">> >>,
      <<EA_FOLDER_STRUCTURE,
        << <<"%(prefix)s", "static", SEP, "css", SEP>>,
           <<"%(prefix)s", "%(templates_folder)s", SEP>> >> >>,
      <<EA_LIVERELOAD_WATCH_FILES, <<>> >>,
      <<EA_LIVERELOAD_WATCH_FILES,
        << <<"%(prefix)s", "%(templates_folder)s", SEP, "*", DOT, "html">>,
           <<SEP, "srv", SEP, "shared", SEP, "*", DOT, "scss">> >> >> }

LiveConfigObjects ==
    { [k \in {a[1] : a \in S} |-> (CHOOSE a \in S : a[1] = k)[2]] :
        S \in {T \in SUBSET LiveAttributes :
                 /\ Cardinality(T) <= MaxOverrides
                 /\ \A a, b \in T : a[1] = b[1] => a = b} }

\* EnhancedApp(config_file = ...) on a project root, run_livereload to follow
InitLive ==
    /\ pc = "start"
    /\ config_file \in LiveConfigObjects
    /\ fs \in InitialFs
    /\ app_config = <<>>
    /\ config = <<>>
    /\ created = <<>>
    /\ sc_i = 1
    /\ env_filters = <<>>
    /\ env_globals = <<>>
    /\ scss_path = <<>>
    /\ js_src_path = <<>>
    /\ bower_path = <<>>
    /\ js_filters = <<>>
    /\ css_filters = <<>>
    /\ depends_scss = <<>>
    /\ js_asset_names = <<>>
    /\ css_asset_names = <<>>
    /\ named_bundles = <<>>
    /\ registered = <<>>
    /\ as_i = 1
    /\ handlers = {}
    /\ response = NoExchange
    /\ NoLive
    /\ NoSlug
    /\ NoDate

NextLive ==
    \/ merge_config
    \/ scaffold_break
    \/ scaffold_create
    \/ scaffold_end
    \/ enhance_jinja
    \/ enhance_assets_filters
    \/ add_js_asset
    \/ js_assets_end
    \/ add_css_asset
    \/ css_assets_end
    \/ run_livereload
    \/ server_watch
    \/ server_serve
    \/ server_stopped

SpecLive ==
    InitLive /\ [][NextLive]_vars

\* format_datetime(d, format)
InitDate ==
    /\ NoApp
    /\ NoLive
    /\ NoSlug
    /\ fd_pc = "call"
    /\ d \in Values
    /\ format \in Formats
    /\ fd_result = None

NextDate ==
    call_format_datetime

SpecDate ==
    InitDate /\ [][NextDate]_vars

(***************************************************************************)
(* The claims.                                                             *)
(***************************************************************************)
\* the name each default key has once 'EA_' is cut off and the rest lower-cased
NamespaceName ==
    (EA_BOWER_FOLDER :> k_bower_folder)
    @@ (EA_SCSS_FOLDER :> k_scss_folder)
    @@ (EA_JS_SRC_FOLDER :> k_js_src_folder)
    @@ (EA_TEMPLATES_FOLDER :> k_templates_folder)
    @@ (EA_PREFIX :> k_prefix)
    @@ (EA_JINJA_FILTERS :> k_jinja_filters)
    @@ (EA_JINJA_FUNCTIONS :> k_jinja_functions)
    @@ (EA_JINJA_CONTEXT :> k_jinja_context)
    @@ (EA_FOLDER_STRUCTURE :> k_folder_structure)
    @@ (EA_JS_LIBS :> k_js_libs)
    @@ (EA_SCSS_LIBS :> k_scss_libs)
    @@ (EA_JS_ASSETS :> k_js_assets)
    @@ (EA_CSS_ASSETS :> k_css_assets)
    @@ (EA_FILTER_JSMIN :> k_filter_jsmin)
    @@ (EA_FILTER_AUTOPREFIXER :> k_filter_autoprefixer)
    @@ (EA_FILTER_BABEL :> k_filter_babel)
    @@ (EA_BABEL_PRESETS :> k_babel_presets)
    @@ (EA_LIVERELOAD_WATCH_FILES :> k_livereload_watch_files)

Merged ==
    pc \in {"scaffold", "jinja", "assets", "js", "css", "done", "failed"}

\* C1: once the configuration is merged, every key of default_config holds
\* the caller's value when the caller's object defines it and the default
\* otherwise, in the merged configuration and in self.config under the key
\* with 'EA_' cut off and lower-cased.
C1_CallerValuesWin ==
    Merged =>
        \A K \in DOMAIN default_config :
            LET v == IF K \in DOMAIN config_file THEN config_file[K]
                     ELSE default_config[K]
            IN  /\ K \in DOMAIN app_config
                /\ app_config[K] = v
                /\ NamespaceName[K] \in DOMAIN config
                /\ config[NamespaceName[K]] = v

C1_Witness ==
    /\ pc = "done"
    /\ EA_PREFIX \in DOMAIN config_file
    /\ EA_SCSS_FOLDER \notin DOMAIN config_file
    /\ config[k_prefix] = <<"admin", SEP>>
    /\ config[k_scss_folder] = <<"scss">>

\* the paths that existed before create_folder_structure ran
ExistedAtStart ==
    (fs.dirs \cup fs.files) \ Range(created)

TemplatePaths ==
    {abspath(TemplatePath(i)) : i \in 1..Len(config[k_folder_structure])}

\* C2: when no path of the template list exists at the start,
\* create_folder_structure returns with every path of the list in place, and
\* each created path's parent was there before it.
C2_AllMissingAllCreated ==
    (pc = "jinja" /\ TemplatePaths \cap ExistedAtStart = {}) =>
        /\ \A i \in 1..Len(config[k_folder_structure]) : exists(fs, TemplatePath(i))
        /\ \A j \in 1..Len(created) :
              dirname(created[j]) \in
                  ExistedAtStart \cup {created[k] : k \in 1..(j - 1)}

\* C3: the templates are taken in list order; at a template whose path
\* exists the loop ends and nothing is created, then or later; what a step
\* creates is the path of the template in turn and its missing parents.
C3_StopsAtFirstExisting ==
    [][ /\ (/\ pc = "scaffold"
            /\ sc_i <= Len(config[k_folder_structure])
            /\ exists(fs, TemplatePath(sc_i)))
           => (pc' = "jinja" /\ fs' = fs /\ created' = created)
        /\ pc = "scaffold" =>
              /\ sc_i' \in {sc_i, sc_i + 1}
              /\ \A p \in Range(created') \ Range(created) :
                    StartsWith(abspath(TemplatePath(sc_i)), p)
        /\ pc \in {"jinja", "assets", "js", "css", "done", "failed"} =>
              (fs' = fs /\ created' = created) ]_vars

C3_Witness ==
    /\ pc = "jinja"
    /\ sc_i > 1
    /\ sc_i < Len(config[k_folder_structure])
    /\ created # <<>>
    /\ \E i \in sc_i..Len(config[k_folder_structure]) : ~exists(fs, TemplatePath(i))

Calls(kind) ==
    SelectSeq(registered, LAMBDA c : c.kind = kind)

\* C4: with JS libraries and at least one JS asset configured, the first JS
\* bundle registered is 'libs.js', js_asset_names is the JS registrations in
\* their order, 'libs.js' and then the outputs of js_assets, and
\* css_asset_names the CSS outputs in the order of css_assets.
C4_LibsFirstNamesInOrder ==
    (pc = "done" /\ app_config[EA_JS_LIBS] # <<>> /\ app_config[EA_JS_ASSETS] # <<>>) =>
        LET js == Calls("js")
            css == Calls("css")
            assets == app_config[EA_JS_ASSETS]
            sheets == app_config[EA_CSS_ASSETS]
        IN  /\ js[1].name = <<"libs", DOT, "js">>
            /\ Len(js_asset_names) = Len(js)
            /\ \A i \in 1..Len(js) : js_asset_names[i] = js[i].name
            /\ Len(js_asset_names) = 1 + Len(assets)
            /\ \A i \in 1..Len(assets) : js_asset_names[i + 1] = assets[i].out
            /\ Len(css_asset_names) = Len(css)
            /\ \A i \in 1..Len(css) : css_asset_names[i] = css[i].name
            /\ Len(css_asset_names) = Len(sheets)
            /\ \A i \in 1..Len(sheets) :
                  css_asset_names[i] = sheets[i] \o <<DOT, "css">>

C4_Witness ==
    /\ pc = "done"
    /\ Len(js_asset_names) = 3
    /\ js_asset_names[1] = <<"libs", DOT, "js">>
    /\ Len(css_asset_names) = 2

C6_DependsScss ==
    pc \in {"js", "css", "done"} =>
        LET libs == app_config[EA_SCSS_LIBS]
            includes == css_filters[1].includes
            own == cwd \o <<SEP>> \o app_config[EA_PREFIX] \o <<"static", SEP>>
                   \o app_config[EA_SCSS_FOLDER]
            bower == cwd \o <<SEP>> \o app_config[EA_BOWER_FOLDER]
        IN  /\ Len(depends_scss) = 1 + Len(libs)
            /\ Len(includes) = 1 + Len(libs)
            /\ includes[1] = own
            /\ \A i \in 1..Len(libs) :
                  includes[i + 1] = IF libs[i][1] = SEP THEN libs[i]
                                    ELSE bower \o <<SEP>> \o libs[i]
            /\ \A i \in 1..Len(depends_scss) :
                  depends_scss[i] = includes[i] \o <<SEP, "*", DOT, "scss">>

C6_Witness ==
    /\ pc = "done"
    /\ Len(depends_scss) = 3
    /\ app_config[EA_SCSS_FOLDER] = <<"sass">>

\* C7: an application built by the constructor answers 403, 404 and 410
\* with the wrapper's handlers: the template of the status code, and the
\* text 'Not found' for a 404 on '/favicon.ico'.
C7_WrapperHandlersAnswer ==
    (pc = "done" /\ response # NoExchange) =>
        /\ response.status \in ErrorCodes
        /\ response.body =
              IF response.status = 404 /\ response.request = favicon THEN "Not found"
              ELSE IF response.status = 404 THEN "404.html"
              ELSE IF response.status = 403 THEN "403.html"
              ELSE "410.html"

C8_Suffixed(k) ==
    base \o <<"-">> \o Decimal(k)

\* C8: gen_slug ends (its loop runs at most once per existing slug, and
\* then it returns), and what it returns is not in existing_slugs: the base slug when that is free, and otherwise base-k for
\* the least k >= 1 for which base-k is free.
C8_GenSlugUnique ==
    /\ sl_pc = "loop" => counter <= Cardinality(existing_slugs) + 1
    /\ sl_pc \in {"call", "loop", "done"}
    /\ sl_pc = "done" =>
          /\ slug \notin existing_slugs
          /\ base \notin existing_slugs => slug = base
          /\ base \in existing_slugs =>
                \E k \in 1..Cardinality(existing_slugs) :
                    /\ slug = C8_Suffixed(k)
                    /\ \A j \in 1..(k - 1) : C8_Suffixed(j) \in existing_slugs

C8_Witness ==
    /\ sl_pc = "done"
    /\ input_string = <<"a_acute", " ", "-">>
    /\ existing_slugs = {<<"a">>, <<"a", "-", "1">>}
    /\ slug = <<"a", "-", "2">>

\* the name tokens of the JS source folder, in the order of their strings
Collation ==
    <<"a", "b">>

Rank(t) ==
    CHOOSE i \in 1..Len(Collation) : Collation[i] = t

\* a < b for two paths that differ in a name token
StrLess(a, b) ==
    \E i \in 1..Len(a) :
        /\ i <= Len(b)
        /\ SubSeq(a, 1, i - 1) = SubSeq(b, 1, i - 1)
        /\ a[i] # b[i]
        /\ Rank(a[i]) < Rank(b[i])

\* C9: the input files of a bundle registered from a glob pattern are the
\* files that match it under the JS source folder, in reverse lexicographic
\* order.
C9_GlobInputsReverseSorted ==
    pc = "done" =>
        LET assets == app_config[EA_JS_ASSETS]
            offset == IF app_config[EA_JS_LIBS] # <<>> THEN 1 ELSE 0
        IN  \A i \in 1..Len(assets) :
                assets[i].is_pattern =>
                    LET scripts == Calls("js")[i + offset].bundle.contents
                    IN  /\ Range(scripts) = glob(fs, join(js_src_path, assets[i].pattern))
                        /\ \A j, k \in 1..Len(scripts) :
                              j < k => StrLess(scripts[k], scripts[j])

\* C10: the JS filter chain is empty, the minifier, the transpiler with
\* babel_presets, or the minifier and then the transpiler, as filter_jsmin
\* and filter_babel say; the CSS chain is the SCSS compiler, followed by the
\* autoprefixer exactly when filter_autoprefixer is on.
C10_FilterChains ==
    pc \in {"js", "css", "done"} =>
        LET jsmin == app_config[EA_FILTER_JSMIN]
            babel == app_config[EA_FILTER_BABEL]
            names(chain) == [i \in 1..Len(chain) |-> chain[i].name]
        IN  /\ ~jsmin /\ ~babel => names(js_filters) = <<>>
            /\ jsmin /\ ~babel => names(js_filters) = <<"jsmin">>
            /\ ~jsmin /\ babel => names(js_filters) = <<"babel">>
            /\ jsmin /\ babel => names(js_filters) = <<"jsmin", "babel">>
            /\ \A i \in 1..Len(js_filters) :
                  js_filters[i].name = "babel" =>
                      js_filters[i].presets = app_config[EA_BABEL_PRESETS]
            /\ names(css_filters) =
                  IF app_config[EA_FILTER_AUTOPREFIXER]
                  THEN <<"libsass", "autoprefixer">> ELSE <<"libsass">>

C10_Witness ==
    /\ pc = "done"
    /\ app_config[EA_FILTER_JSMIN]
    /\ app_config[EA_FILTER_BABEL]
    /\ Len(js_filters) = 2

\* C11: a name of jinja_filters, jinja_functions or jinja_context that the
\* utility library does not define makes the construction fail: the
\* constructor does not get past enhance_jinja with such a name, and no
\* request handled later fails on the lookup.
C11_LookupFailsAtStartup ==
    /\ pc \in {"assets", "js", "css", "done"} =>
          \A m \in {k_jinja_filters, k_jinja_functions, k_jinja_context} :
              \A k \in DOMAIN config[m] : config[m][k] \in utils
    /\ response.body # AttributeError

\* the project root held nothing when the constructor started
FreshRoot ==
    ExistedAtStart = {<<SEP>>, cwd}

\* C14: with the default configuration on a fresh project root, the source
\* of every CSS bundle registered from css_assets is the SCSS file that
\* create_folder_structure created, static/scss/styles.scss, and the bundle's
\* output is the matching name, styles.css.
C14_ScaffoldMatchesCssBundles ==
    (/\ pc = "done"
     /\ FreshRoot
     /\ \A K \in DOMAIN default_config : app_config[K] = default_config[K]) =>
        LET css == Calls("css")
            scss_file == cwd \o <<SEP, "static", SEP, "scss", SEP, "styles", DOT, "scss">>
        IN  /\ Len(css) = Len(default_config[EA_CSS_ASSETS])
            /\ \A i \in 1..Len(css) :
                  /\ css[i].bundle.contents = <<scss_file>>
                  /\ scss_file \in Range(created)
                  /\ css[i].name = <<"styles", DOT, "css">>
                  /\ css[i].bundle.output =
                        cwd \o <<SEP, "static", SEP, "styles", DOT, "css">>

\* C13: format_datetime returns the empty string for an empty or absent
\* value, the value formatted with the given format when the value is a
\* datetime, and the value itself, unchanged, only when the value is not a
\* datetime.
C13_FormatDatetime ==
    fd_pc = "done" =>
        /\ ~truth(d) => fd_result = Str(<<>>)
        /\ (truth(d) /\ d.type = "datetime") => fd_result = Str(strftime(d, format))
        /\ (truth(d) /\ d.type # "datetime") => fd_result = d
        /\ (truth(d) /\ fd_result = d) => d.type # "datetime"

\* C12: run_livereload turns app.debug and the template auto-reload on,
\* then watches every pattern of livereload_watch_files, its placeholders
\* filled from the merged configuration, in list order; serve is called once,
\* after the last watch, with the port asked for (8080 when none is given)
\* and host 0.0.0.0; the call has not returned while the server runs.
C12_WatchThenServeOnce ==
    IF pc \in {"watch", "serving", "returned"}
    THEN LET patterns == app_config[EA_LIVERELOAD_WATCH_FILES]
             filled(i) == Format(patterns[i], config)
             resolved(i) == IF filled(i)[1] = SEP THEN filled(i)
                            ELSE cwd \o <<SEP>> \o filled(i)
         IN  /\ app_config[DEBUG] = TRUE
             /\ auto_reload = TRUE
             /\ Len(server.watches) <= Len(patterns)
             /\ \A i \in 1..Len(server.watches) : server.watches[i] = resolved(i)
             /\ pc = "watch" => server.serve = <<>>
             /\ pc \in {"serving", "returned"} =>
                   /\ Len(server.watches) = Len(patterns)
                   /\ server.serve =
                         << [port |-> IF lr_args = <<>> THEN 8080 ELSE lr_args[1],
                             host |-> <<"0", DOT, "0", DOT, "0", DOT, "0">>] >>
             /\ server.running <=> pc = "serving"
    ELSE /\ server = NoServer
         /\ auto_reload = FALSE

C12_Witness ==
    /\ pc = "serving"
    /\ lr_args = <<>>
    /\ config[k_prefix] = <<"admin", SEP>>
    /\ server.watches =
          << <<SEP, "proj", SEP, "admin", SEP, "templates", SEP, "*", DOT, "html">>,
             <<SEP, "srv", SEP, "shared", SEP, "*", DOT, "scss">> >>
    /\ server.serve[1].port = 8080

====
